---- MODULE Spec2Model ----
(***************************************************************************)
(* Control-flow model of the migration scripts of bhenndricks/aimigration. *)
(*                                                                         *)
(* A behaviour is a run of one script: Init picks the script, every        *)
(* database call either succeeds or raises, and the Data Pump job whose    *)
(* status monitor_job polls progresses on its own (JobStep).  A script     *)
(* that loads CUSTOMER_ORDERS_DEMO from Object Storage may be run again    *)
(* against the tables its earlier run left (RunAgain).                     *)
(***************************************************************************)
EXTENDS Integers, Sequences, FiniteSets, TLC

VARIABLES
    script,       \* the script being run
    pc,           \* position in the script
    connOpen,     \* number of database connections currently open
    exit_status,  \* process exit status (0 unless sys.exit(1) / uncaught exception)
    captured,     \* number of exceptions caught by an except clause so far
    dblog,        \* every database call issued: <<operation, succeeded>>
    out,          \* messages printed
    job,          \* DBA_DATAPUMP_JOBS row of the job: <<state, degree>> or NoRow
    last_state,   \* monitor_job's local last_state
    row,          \* monitor_job's local row
    events,       \* monitor_job's polls and sleeps, in order
    skipped,      \* whether the job was COMPLETED, unseen, since the last poll
    TOTAL_ROWS,        \* generate_customer_orders_demo's configuration:
    BATCH_SIZE,        \*   rows to insert, rows per commit,
    PROGRESS_INTERVAL, \*   rows per progress line
    inserted,     \* generate_customer_orders_demo's local inserted
    batches,      \* sizes of the row lists passed to executemany so far
    sj_ok,        \* test_connections' local sj_ok
    phx_ok,       \* test_connections' local phx_ok
    source,       \* the rows of the exported CSV in Object Storage
    demo,         \* CUSTOMER_ORDERS_DEMO in adb_phoenix: its rows, or NoTable
    ext,          \* whether the external table CO_DEMO_EXT exists
    stage,        \* CUSTOMER_ORDERS_STAGE: its rows, or NoTable
    loads,        \* CUSTOMER_ORDERS_DEMO as each completed load left it
    runs          \* runs of the script made before this one

\* monitor_job's state and the job it watches
mon == <<job, last_state, row, events, skipped>>

\* locals of the other scripts
conf == <<TOTAL_ROWS, BATCH_SIZE, PROGRESS_INTERVAL>>
data == <<conf, inserted, batches, sj_ok, phx_ok>>

\* adb_phoenix and the file it is loaded from, which outlive a run
tables == <<source, demo, ext, stage, loads, runs>>

vars == <<script, pc, connOpen, exit_status, captured, dblog, out, mon, data,
          tables>>

----------------------------------------------------------------------------
(* Bounds of the model *)

\* the job is found still running at no more than MaxPolls polls of a run
MaxPolls == 3

\* polls made beyond MaxPolls, of a job that is over by then
MaxLatePolls == 1

\* largest values of the small configurations of the generator
MaxRows == 7
MaxBatch == 3
MaxInterval == 3

\* rows are told apart by order_id, 1..MaxOrderId
MaxOrderId == 2

\* a script that loads from Object Storage is run at most MaxRuns times
MaxRuns == 2

----------------------------------------------------------------------------
(* Values *)

\* Python's None, as the value of last_state
None == "None"

\* cursor.fetchone() when the query matches no row
NoRow == <<>>

\* states a present job row may report; the last three are the ones
\* monitor_job treats as terminal
NonTerminalStates == {"EXECUTING", "RUNNING"}
TerminalStates == {"COMPLETED", "STOPPED", "FAILED"}
JobStates == NonTerminalStates \cup TerminalStates

\* the informational DEGREE column
Degrees == {1, 2}

Rows == JobStates \X Degrees

JOB_NAME_export == "CO_DEMO_EXPORT"
JOB_NAME_import == "CO_DEMO_IMPORT"

\* default of monitor_job's poll_interval parameter, which both callers use
poll_interval == 5

Scripts == {"export_datapump", "import_datapump", "export_cloud",
            "import_cloud", "import_final", "import_noclobs",
            "generate_customer_orders_demo", "fix_table_phoenix",
            "setup_object_storage_adbsj", "cleanup_job", "check_errors",
            "test_connections"}

MonitorPcs == {"fetch", "check", "sleep"}

\* A table is the number of copies it holds of each row; a table that does
\* not exist holds no such numbers.
OrderIds == 1..MaxOrderId
NoTable == << >>
EmptyTable == [r \in OrderIds |-> 0]
Tables == [OrderIds -> {0, 1}]

\* t after INSERT ... SELECT of the rows of u (or a load of a file u)
Inserted(t, u) == [r \in OrderIds |-> t[r] + u[r]]

\* the job has reached a terminal state or its row is gone
JobOver(r) == IF r = NoRow THEN TRUE ELSE r[1] \in TerminalStates

----------------------------------------------------------------------------
(* Trace helpers *)

IsPoll(e) == e[1] \in {"poll", "raise"}
IsSleep(e) == e[1] = "sleep"
NumPolls == Len(SelectSeq(events, IsPoll))
NumSleeps == Len(SelectSeq(events, IsSleep))

\* the runs explored: beyond MaxPolls polls only a job that is over is polled
PollInBounds ==
    IF JobOver(job)
    THEN NumPolls < MaxPolls + MaxLatePolls
    ELSE NumPolls < MaxPolls

----------------------------------------------------------------------------
(* The job-status provider: the job progresses, stops, fails or is purged  *)
(* on its own while the script runs.  Only the query reads the job's row,  *)
(* so what happens to the job between two queries is taken, in any number  *)
(* of steps, while the watcher sleeps; the row the first query finds is    *)
(* chosen by Init.  skipped records that the job was COMPLETED and left    *)
(* that state again within the current sleep, so that no query read it;    *)
(* the loop body clears it when the watcher goes to sleep again.           *)

\* the state a status record shows; "ABSENT" when the record is not there
StateOf(r) == IF r = NoRow THEN "ABSENT" ELSE r[1]

JobStep ==
    /\ script \in {"export_datapump", "import_datapump"}
    /\ pc = "sleep"
    /\ \E r \in (Rows \cup {NoRow}) \ {job} : job' = r
    /\ skipped' = (skipped \/ (job # row /\ StateOf(job) = "COMPLETED"))
    /\ UNCHANGED <<script, pc, connOpen, exit_status, captured, dblog, out,
                   last_state, row, events, data, tables>>

----------------------------------------------------------------------------
(* Driver calls shared by every script *)

\* oracledb.connect(...) entering a with block
Connect(from, op, to, fail) ==
    /\ pc = from
    /\ \E ok \in BOOLEAN :
         /\ dblog' = Append(dblog, <<op, ok>>)
         /\ connOpen' = IF ok THEN connOpen + 1 ELSE connOpen
         /\ pc' = IF ok THEN to ELSE fail
    /\ UNCHANGED <<script, exit_status, captured, out, mon, data, tables>>

\* variant: a failed statement leaves the connection open
Execute_leaks_on_error(from, op, to, fail, leaves, msgs) ==
    /\ pc = from
    /\ \E ok \in BOOLEAN :
         /\ dblog' = Append(dblog, <<op, ok>>)
         /\ connOpen' = IF ok /\ leaves THEN connOpen - 1 ELSE connOpen
         /\ pc' = IF ok THEN to ELSE fail
         /\ out' = IF ok THEN out \o msgs ELSE out
    /\ UNCHANGED <<script, exit_status, captured, mon, data, tables>>

\* cur.execute(op) inside the with block; an exception leaves the with
\* block, which closes the connection.  leaves: the with block ends after
\* this statement when it succeeds.
Execute(from, op, to, fail, leaves, msgs) ==
    /\ pc = from
    /\ \E ok \in BOOLEAN :
         /\ dblog' = Append(dblog, <<op, ok>>)
         /\ connOpen' = IF ok /\ ~leaves THEN connOpen ELSE connOpen - 1
         /\ pc' = IF ok THEN to ELSE fail
         /\ out' = IF ok THEN out \o msgs ELSE out
    /\ UNCHANGED <<script, exit_status, captured, mon, data, tables>>

\* cur.execute(op) of a statement that changes a table: as Execute, with
\* the tables left to the caller
ExecuteOnTables(from, op, to, fail, leaves, msgs) ==
    /\ pc = from
    /\ \E ok \in BOOLEAN :
         /\ dblog' = Append(dblog, <<op, ok>>)
         /\ connOpen' = IF ok /\ ~leaves THEN connOpen ELSE connOpen - 1
         /\ pc' = IF ok THEN to ELSE fail
         /\ out' = IF ok THEN out \o msgs ELSE out
    /\ UNCHANGED <<script, exit_status, captured, mon, data, source, runs>>

\* the latest database call did not raise
Succeeded == dblog[Len(dblog)][2]

\* except Exception as e: print(...); print(e); sys.exit(1)
HandlerExit(from, msg) ==
    /\ pc = from
    /\ captured' = captured + 1
    /\ out' = Append(out, msg)
    /\ exit_status' = 1
    /\ pc' = "done"
    /\ UNCHANGED <<script, connOpen, dblog, mon, data, tables>>

\* the closing prints of a script that falls off its end
Finish(from, msgs) ==
    /\ pc = from
    /\ out' = out \o msgs
    /\ pc' = "done"
    /\ UNCHANGED <<script, connOpen, exit_status, captured, dblog, mon, data,
                   tables>>

----------------------------------------------------------------------------
(* export_datapump.py *)

\* variant: a record that has gone after it was seen is taken as a completion
export_notifications_assumes_completed(job_name, r, last) ==
    IF r = NoRow
    THEN IF last # None
         THEN << <<"transition", "COMPLETED", 1>>,
                 <<"terminal", job_name, "COMPLETED">> >>
         ELSE << <<"not_found", job_name>> >>
    ELSE (IF r[1] # last THEN << <<"transition", r[1], r[2]>> >> ELSE << >>)
         \o (IF r[1] \in {"COMPLETED", "STOPPED", "FAILED"}
             THEN << <<"terminal", job_name, r[1]>> >>
             ELSE << >>)

\* variant: the state line is printed on every pass, changed or not
export_notifications_every_pass(job_name, r, last) ==
    IF r = NoRow
    THEN IF last # None
         THEN << <<"no_longer_listed", job_name>> >>
         ELSE << <<"not_found", job_name>> >>
    ELSE << <<"transition", r[1], r[2]>> >>
         \o (IF r[1] \in {"COMPLETED", "STOPPED", "FAILED"}
             THEN << <<"terminal", job_name, r[1]>> >>
             ELSE << >>)

\* lines 104-121: what one pass of the loop body prints for the fetched row
export_notifications(job_name, r, last) ==
    IF r = NoRow
    THEN IF last # None
         THEN << <<"no_longer_listed", job_name>> >>
         ELSE << <<"not_found", job_name>> >>
    ELSE (IF r[1] # last THEN << <<"transition", r[1], r[2]>> >> ELSE << >>)
         \o (IF r[1] \in {"COMPLETED", "STOPPED", "FAILED"}
             THEN << <<"terminal", job_name, r[1]>> >>
             ELSE << >>)

\* variant: last_state is assigned only while it is still None
export_last_state_keeps_first(r, last) ==
    IF r # NoRow /\ last = None THEN r[1] ELSE last

\* lines 114-117: last_state after the pass
export_last_state(r, last) ==
    IF r # NoRow /\ r[1] # last THEN r[1] ELSE last

\* variant: the break of the no-row branch is missing
export_breaks_waits_on_no_row(r) ==
    /\ r # NoRow
    /\ r[1] \in {"COMPLETED", "STOPPED", "FAILED"}

\* variant: STOPPED is not in the terminal tuple
export_breaks_misses_stopped(r) ==
    \/ r = NoRow
    \/ r[1] \in {"COMPLETED", "FAILED"}

\* variant: the watcher gives up at its second poll
export_breaks_gives_up(r) ==
    \/ r = NoRow
    \/ r[1] \in {"COMPLETED", "STOPPED", "FAILED"}
    \/ NumPolls >= 2

\* lines 104-121: whether the pass leaves the loop (break)
export_breaks(r) ==
    \/ r = NoRow
    \/ r[1] \in {"COMPLETED", "STOPPED", "FAILED"}

export_connect ==
    /\ script = "export_datapump"
    /\ Connect("connect", "connect", "submit", "handler")

\* cur.execute(EXPORT_PLSQL), then monitor_job starts
export_submit ==
    /\ script = "export_datapump"
    /\ pc = "submit"
    /\ \E ok \in BOOLEAN :
         /\ dblog' = Append(dblog, <<"EXPORT_PLSQL", ok>>)
         /\ IF ok
            THEN /\ out' = out \o << <<"job_submitted">>, <<"monitoring">> >>
                 /\ pc' = "fetch"
                 /\ UNCHANGED connOpen
            ELSE /\ pc' = "handler"
                 /\ connOpen' = connOpen - 1
                 /\ UNCHANGED out
    /\ last_state' = None
    /\ UNCHANGED <<script, exit_status, captured, job, skipped, row, events, data, tables>>

\* monitor_job: cursor.execute(SELECT state, degree ...); cursor.fetchone()
export_fetch ==
    /\ script = "export_datapump"
    /\ pc = "fetch"
    /\ PollInBounds
    /\ \E ok \in BOOLEAN :
         /\ dblog' = Append(dblog, <<"SELECT_JOB_STATE", ok>>)
         /\ IF ok
            THEN /\ row' = job
                 /\ events' = Append(events, <<"poll", job>>)
                 /\ pc' = "check"
                 /\ UNCHANGED connOpen
            ELSE /\ events' = Append(events, <<"raise", NoRow>>)
                 /\ pc' = "handler"
                 /\ connOpen' = connOpen - 1
                 /\ UNCHANGED row
    /\ UNCHANGED <<script, exit_status, captured, out, job, skipped, last_state,
                   data, tables>>

\* variant: a missing status record is raised as an error
export_check_raises_on_no_row ==
    /\ script = "export_datapump"
    /\ pc = "check"
    /\ out' = out \o export_notifications(JOB_NAME_export, row, last_state)
    /\ last_state' = export_last_state(row, last_state)
    /\ IF export_breaks(row)
       THEN /\ pc' = IF row = NoRow THEN "handler" ELSE "finish"
            /\ connOpen' = connOpen - 1
       ELSE /\ pc' = "sleep"
            /\ UNCHANGED connOpen
    /\ skipped' = (skipped /\ pc' # "sleep")
    /\ UNCHANGED <<script, exit_status, captured, dblog, job, row, events, data, tables>>

\* monitor_job: the rest of the loop body, up to break or time.sleep
export_check ==
    /\ script = "export_datapump"
    /\ pc = "check"
    /\ out' = out \o export_notifications(JOB_NAME_export, row, last_state)
    /\ last_state' = export_last_state(row, last_state)
    /\ IF export_breaks(row)
       THEN /\ pc' = "finish"
            /\ connOpen' = connOpen - 1
       ELSE /\ pc' = "sleep"
            /\ UNCHANGED connOpen
    /\ skipped' = (skipped /\ pc' # "sleep")
    /\ UNCHANGED <<script, exit_status, captured, dblog, job, row, events, data, tables>>

\* variant: the loop goes round without sleeping
export_sleep_skipped ==
    /\ script = "export_datapump"
    /\ pc = "sleep"
    /\ pc' = "fetch"
    /\ UNCHANGED <<script, connOpen, exit_status, captured, dblog, out, mon, data, tables>>

\* monitor_job: time.sleep(poll_interval)
export_sleep ==
    /\ script = "export_datapump"
    /\ pc = "sleep"
    /\ events' = Append(events, <<"sleep", poll_interval>>)
    /\ pc' = "fetch"
    /\ UNCHANGED <<script, connOpen, exit_status, captured, dblog, out,
                   job, skipped, last_state, row, data, tables>>

export_handler ==
    /\ script = "export_datapump"
    /\ HandlerExit("handler", <<"error">>)

export_finish ==
    /\ script = "export_datapump"
    /\ Finish("finish", << <<"completed">> >>)

export_datapump ==
    \/ export_connect
    \/ export_submit
    \/ export_fetch
    \/ export_check
    \/ export_sleep
    \/ export_handler
    \/ export_finish

----------------------------------------------------------------------------
(* import_datapump.py *)

\* variant: the terminal message is printed before the state line
import_notifications_terminal_first(job_name, r, last) ==
    IF r = NoRow
    THEN IF last # None
         THEN << <<"no_longer_listed", job_name>> >>
         ELSE << <<"not_found", job_name>> >>
    ELSE (IF r[1] \in {"COMPLETED", "STOPPED", "FAILED"}
          THEN << <<"terminal", job_name, r[1]>> >>
          ELSE << >>)
         \o (IF r[1] # last THEN << <<"transition", r[1], r[2]>> >> ELSE << >>)

\* variant: the two absence messages are swapped
import_notifications_swapped_absence(job_name, r, last) ==
    IF r = NoRow
    THEN IF last = None
         THEN << <<"no_longer_listed", job_name>> >>
         ELSE << <<"not_found", job_name>> >>
    ELSE (IF r[1] # last THEN << <<"transition", r[1], r[2]>> >> ELSE << >>)
         \o (IF r[1] \in {"COMPLETED", "STOPPED", "FAILED"}
             THEN << <<"terminal", job_name, r[1]>> >>
             ELSE << >>)

\* variant: the first observed state is not reported as a change
import_notifications_skips_first(job_name, r, last) ==
    IF r = NoRow
    THEN IF last # None
         THEN << <<"no_longer_listed", job_name>> >>
         ELSE << <<"not_found", job_name>> >>
    ELSE (IF last # None /\ r[1] # last
          THEN << <<"transition", r[1], r[2]>> >>
          ELSE << >>)
         \o (IF r[1] \in {"COMPLETED", "STOPPED", "FAILED"}
             THEN << <<"terminal", job_name, r[1]>> >>
             ELSE << >>)

\* lines 113-129
import_notifications(job_name, r, last) ==
    IF r = NoRow
    THEN IF last # None
         THEN << <<"no_longer_listed", job_name>> >>
         ELSE << <<"not_found", job_name>> >>
    ELSE (IF r[1] # last THEN << <<"transition", r[1], r[2]>> >> ELSE << >>)
         \o (IF r[1] \in {"COMPLETED", "STOPPED", "FAILED"}
             THEN << <<"terminal", job_name, r[1]>> >>
             ELSE << >>)

\* variant: last_state is never assigned
import_last_state_never_set(r, last) == last

\* lines 122-125
import_last_state(r, last) ==
    IF r # NoRow /\ r[1] # last THEN r[1] ELSE last

\* variant: only COMPLETED ends the loop
import_breaks_only_completed(r) ==
    \/ r = NoRow
    \/ r[1] = "COMPLETED"

\* lines 113-129
import_breaks(r) ==
    \/ r = NoRow
    \/ r[1] \in {"COMPLETED", "STOPPED", "FAILED"}

import_connect ==
    /\ script = "import_datapump"
    /\ Connect("connect", "connect", "submit", "handler")

\* variant: the watcher starts although the submission raised
import_submit_ignores_error ==
    /\ script = "import_datapump"
    /\ pc = "submit"
    /\ \E ok \in BOOLEAN :
         /\ dblog' = Append(dblog, <<"IMPORT_PLSQL", ok>>)
         /\ IF ok
            THEN /\ out' = out \o << <<"job_submitted">>, <<"monitoring">> >>
                 /\ pc' = "fetch"
                 /\ UNCHANGED connOpen
            ELSE /\ pc' = "fetch"
                 /\ UNCHANGED <<connOpen, out>>
    /\ last_state' = None
    /\ UNCHANGED <<script, exit_status, captured, job, skipped, row, events, data, tables>>

import_submit ==
    /\ script = "import_datapump"
    /\ pc = "submit"
    /\ \E ok \in BOOLEAN :
         /\ dblog' = Append(dblog, <<"IMPORT_PLSQL", ok>>)
         /\ IF ok
            THEN /\ out' = out \o << <<"job_submitted">>, <<"monitoring">> >>
                 /\ pc' = "fetch"
                 /\ UNCHANGED connOpen
            ELSE /\ pc' = "handler"
                 /\ connOpen' = connOpen - 1
                 /\ UNCHANGED out
    /\ last_state' = None
    /\ UNCHANGED <<script, exit_status, captured, job, skipped, row, events, data, tables>>

\* variant: monitor_job swallows the error of a fetch and polls again
import_fetch_retries ==
    /\ script = "import_datapump"
    /\ pc = "fetch"
    /\ PollInBounds
    /\ \E ok \in BOOLEAN :
         /\ dblog' = Append(dblog, <<"SELECT_JOB_STATE", ok>>)
         /\ IF ok
            THEN /\ row' = job
                 /\ events' = Append(events, <<"poll", job>>)
                 /\ pc' = "check"
            ELSE /\ events' = Append(events, <<"raise", NoRow>>)
                 /\ pc' = "sleep"
                 /\ UNCHANGED row
    /\ UNCHANGED <<script, connOpen, exit_status, captured, out, job, skipped,
                   last_state, data, tables>>

import_fetch ==
    /\ script = "import_datapump"
    /\ pc = "fetch"
    /\ PollInBounds
    /\ \E ok \in BOOLEAN :
         /\ dblog' = Append(dblog, <<"SELECT_JOB_STATE", ok>>)
         /\ IF ok
            THEN /\ row' = job
                 /\ events' = Append(events, <<"poll", job>>)
                 /\ pc' = "check"
                 /\ UNCHANGED connOpen
            ELSE /\ events' = Append(events, <<"raise", NoRow>>)
                 /\ pc' = "handler"
                 /\ connOpen' = connOpen - 1
                 /\ UNCHANGED row
    /\ UNCHANGED <<script, exit_status, captured, out, job, skipped, last_state,
                   data, tables>>

\* variant: a job that FAILED or was STOPPED is raised as an error
import_check_raises_on_failure ==
    /\ script = "import_datapump"
    /\ pc = "check"
    /\ out' = out \o import_notifications(JOB_NAME_import, row, last_state)
    /\ last_state' = import_last_state(row, last_state)
    /\ IF row = NoRow
       THEN pc' = "verify" /\ UNCHANGED connOpen
       ELSE IF row[1] \in {"FAILED", "STOPPED"}
            THEN pc' = "handler" /\ connOpen' = connOpen - 1
            ELSE /\ pc' = IF import_breaks(row) THEN "verify" ELSE "sleep"
                 /\ UNCHANGED connOpen
    /\ skipped' = (skipped /\ pc' # "sleep")
    /\ UNCHANGED <<script, exit_status, captured, dblog, job, row,
                   events, data, tables>>

import_check ==
    /\ script = "import_datapump"
    /\ pc = "check"
    /\ out' = out \o import_notifications(JOB_NAME_import, row, last_state)
    /\ last_state' = import_last_state(row, last_state)
    /\ pc' = IF import_breaks(row) THEN "verify" ELSE "sleep"
    /\ skipped' = (skipped /\ pc' # "sleep")
    /\ UNCHANGED <<script, connOpen, exit_status, captured, dblog, job, row,
                   events, data, tables>>

import_sleep ==
    /\ script = "import_datapump"
    /\ pc = "sleep"
    /\ events' = Append(events, <<"sleep", poll_interval>>)
    /\ pc' = "fetch"
    /\ UNCHANGED <<script, connOpen, exit_status, captured, dblog, out,
                   job, skipped, last_state, row, data, tables>>

\* cur.execute("SELECT COUNT(*) FROM customer_orders_demo"); cur.fetchone()
import_verify ==
    /\ script = "import_datapump"
    /\ Execute("verify", "SELECT_COUNT", "finish", "handler", TRUE,
               << <<"row_count">> >>)

import_handler ==
    /\ script = "import_datapump"
    /\ HandlerExit("handler", <<"error">>)

import_finish ==
    /\ script = "import_datapump"
    /\ Finish("finish", << <<"completed">> >>)

import_datapump ==
    \/ import_connect
    \/ import_submit
    \/ import_fetch
    \/ import_check
    \/ import_sleep
    \/ import_verify
    \/ import_handler
    \/ import_finish

----------------------------------------------------------------------------
(* generate_customer_orders_demo.py *)

\* lines 35-37: the configuration block.  The values in the file, and small
\* positive values standing for an edited configuration.
Configured == <<50000, 5000, 10000>>
Configurations ==
    {Configured} \cup ((1..MaxRows) \X (1..MaxBatch) \X (1..MaxInterval))

\* variant: every batch has BATCH_SIZE rows
batch_size_always_full(ins) == BATCH_SIZE

\* line 360-361: batch_size = min(BATCH_SIZE, TOTAL_ROWS - inserted)
batch_size(ins) ==
    IF BATCH_SIZE < TOTAL_ROWS - ins THEN BATCH_SIZE ELSE TOTAL_ROWS - ins

\* variant: the final count is reported only when it is a multiple
prints_progress_only_multiples(ins) ==
    ins % PROGRESS_INTERVAL = 0

\* line 370: whether a progress line is printed once ins rows are inserted
prints_progress(ins) ==
    ins % PROGRESS_INTERVAL = 0 \/ ins = TOTAL_ROWS

generate_connect ==
    /\ script = "generate_customer_orders_demo"
    /\ Connect("connect", "connect", "table_check", "handler")

\* line 375: row_count is bound by the fetch of the final count
row_count_bound ==
    \E i \in 1..Len(dblog) : dblog[i] = <<"SELECT_COUNT", TRUE>>

\* variant: the sanity check's except clause does not return
generate_table_check_falls_through ==
    /\ script = "generate_customer_orders_demo"
    /\ pc = "table_check"
    /\ \E ok \in BOOLEAN :
         /\ dblog' = Append(dblog, <<"SELECT_TABLE_CHECK", ok>>)
         /\ IF ok
            THEN /\ pc' = IF 0 < TOTAL_ROWS THEN "insert" ELSE "count"
                 /\ UNCHANGED <<connOpen, captured, out>>
            ELSE /\ captured' = captured + 1
                 /\ out' = Append(out, <<"table_check_error">>)
                 /\ connOpen' = connOpen - 1
                 /\ pc' = "summary"
    /\ inserted' = 0
    /\ UNCHANGED <<script, exit_status, mon, conf, batches, sj_ok, phx_ok, tables>>

\* the sanity check, with its own except clause that returns from main
generate_table_check ==
    /\ script = "generate_customer_orders_demo"
    /\ pc = "table_check"
    /\ \E ok \in BOOLEAN :
         /\ dblog' = Append(dblog, <<"SELECT_TABLE_CHECK", ok>>)
         /\ IF ok
            THEN /\ pc' = IF 0 < TOTAL_ROWS THEN "insert" ELSE "count"
                 /\ UNCHANGED <<connOpen, captured, out>>
            ELSE /\ captured' = captured + 1
                 /\ out' = Append(out, <<"table_check_error">>)
                 /\ connOpen' = connOpen - 1
                 /\ pc' = "done"
    /\ inserted' = 0
    /\ UNCHANGED <<script, exit_status, mon, conf, batches, sj_ok, phx_ok, tables>>

\* cursor.executemany(INSERT_SQL, rows)
generate_insert ==
    /\ script = "generate_customer_orders_demo"
    /\ pc = "insert"
    /\ \E ok \in BOOLEAN :
         /\ dblog' = Append(dblog, <<"INSERT_BATCH", ok>>)
         /\ IF ok
            THEN /\ batches' = Append(batches, batch_size(inserted))
                 /\ pc' = "commit"
                 /\ UNCHANGED connOpen
            ELSE /\ pc' = "handler"
                 /\ connOpen' = connOpen - 1
                 /\ UNCHANGED batches
    /\ UNCHANGED <<script, exit_status, captured, out, mon, conf, inserted,
                   sj_ok, phx_ok, tables>>

\* conn.commit(); inserted += batch_size; the progress print; the loop test
generate_commit ==
    /\ script = "generate_customer_orders_demo"
    /\ pc = "commit"
    /\ \E ok \in BOOLEAN :
         /\ dblog' = Append(dblog, <<"commit", ok>>)
         /\ IF ok
            THEN /\ inserted' = inserted + batch_size(inserted)
                 /\ out' = IF prints_progress(inserted')
                           THEN Append(out, <<"progress", inserted'>>)
                           ELSE out
                 /\ pc' = IF inserted' < TOTAL_ROWS THEN "insert" ELSE "count"
                 /\ UNCHANGED connOpen
            ELSE /\ pc' = "handler"
                 /\ connOpen' = connOpen - 1
                 /\ UNCHANGED <<inserted, out>>
    /\ UNCHANGED <<script, exit_status, captured, mon, conf, batches,
                   sj_ok, phx_ok, tables>>

\* the final SELECT COUNT(*) and fetchone
generate_count ==
    /\ script = "generate_customer_orders_demo"
    /\ Execute("count", "SELECT_COUNT", "summary", "handler", TRUE, << >>)

\* except Exception as e: print(...); print(e); return
generate_handler ==
    /\ script = "generate_customer_orders_demo"
    /\ pc = "handler"
    /\ captured' = captured + 1
    /\ out' = Append(out, <<"error">>)
    /\ pc' = "done"
    /\ UNCHANGED <<script, connOpen, exit_status, dblog, mon, data, tables>>

\* the closing prints; the third one reads row_count, and reading it unbound
\* raises UnboundLocalError outside the try, after the heading was printed
generate_summary ==
    /\ script = "generate_customer_orders_demo"
    /\ pc = "summary"
    /\ IF row_count_bound
       THEN /\ out' = Append(out, <<"complete">>)
            /\ UNCHANGED exit_status
       ELSE /\ out' = Append(out, <<"complete_heading">>)
            /\ exit_status' = 1
    /\ pc' = "done"
    /\ UNCHANGED <<script, connOpen, captured, dblog, mon, data, tables>>

generate_customer_orders_demo ==
    \/ generate_connect
    \/ generate_table_check
    \/ generate_insert
    \/ generate_commit
    \/ generate_count
    \/ generate_handler
    \/ generate_summary

----------------------------------------------------------------------------
(* fix_table_phoenix.py *)

fix_connect ==
    /\ script = "fix_table_phoenix"
    /\ Connect("connect", "connect", "drop", "handler")

fix_drop ==
    /\ script = "fix_table_phoenix"
    /\ ExecuteOnTables("drop", "DROP_TABLE", "create", "handler", FALSE,
                       << <<"dropped">> >>)
    /\ demo = NoTable => ~Succeeded'
    /\ demo' = IF Succeeded' THEN NoTable ELSE demo
    /\ UNCHANGED <<ext, stage, loads>>

fix_create ==
    /\ script = "fix_table_phoenix"
    /\ ExecuteOnTables("create", "CREATE_TABLE", "commit", "handler", FALSE,
                       << <<"created">> >>)
    /\ demo # NoTable => ~Succeeded'
    /\ demo' = IF Succeeded' THEN EmptyTable ELSE demo
    /\ UNCHANGED <<ext, stage, loads>>

fix_commit ==
    /\ script = "fix_table_phoenix"
    /\ Execute("commit", "commit", "done", "handler", TRUE,
               << <<"ready">> >>)

\* except Exception as e: print(...), and the module ends
fix_handler ==
    /\ script = "fix_table_phoenix"
    /\ pc = "handler"
    /\ captured' = captured + 1
    /\ out' = Append(out, <<"error">>)
    /\ pc' = "done"
    /\ UNCHANGED <<script, connOpen, exit_status, dblog, mon, data, tables>>

fix_table_phoenix ==
    \/ fix_connect
    \/ fix_drop
    \/ fix_create
    \/ fix_commit
    \/ fix_handler

----------------------------------------------------------------------------
(* export_cloud.py *)

export_cloud_connect ==
    /\ script = "export_cloud"
    /\ Connect("connect", "connect", "count", "handler")

export_cloud_count ==
    /\ script = "export_cloud"
    /\ Execute("count", "SELECT_COUNT", "export", "handler", FALSE,
               << <<"row_count">> >>)

export_cloud_export ==
    /\ script = "export_cloud"
    /\ Execute("export", "EXPORT_PLSQL", "finish", "handler", TRUE,
               << <<"export_completed">> >>)

export_cloud_handler ==
    /\ script = "export_cloud"
    /\ HandlerExit("handler", <<"error">>)

export_cloud_finish ==
    /\ script = "export_cloud"
    /\ Finish("finish", << <<"finished">> >>)

export_cloud ==
    \/ export_cloud_connect
    \/ export_cloud_count
    \/ export_cloud_export
    \/ export_cloud_handler
    \/ export_cloud_finish

----------------------------------------------------------------------------
(* import_cloud.py *)

import_cloud_connect ==
    /\ script = "import_cloud"
    /\ Connect("connect", "connect", "import", "handler")

\* the statements of IMPORT_PLSQL that can end the block with an error
ImportSteps == {"create_external_table", "truncate", "insert", "commit", "drop"}

\* variant: the block loads without truncating first
import_cloud_import_appends ==
    /\ script = "import_cloud"
    /\ pc = "import"
    /\ \E failed \in ImportSteps \cup {"none"} :
         LET ok == failed = "none" IN
         /\ dblog' = Append(dblog, <<"IMPORT_PLSQL", ok>>)
         /\ connOpen' = IF ok THEN connOpen ELSE connOpen - 1
         /\ pc' = IF ok THEN "count" ELSE "handler"
         /\ out' = IF ok THEN Append(out, <<"copy_completed">>) ELSE out
         /\ ext' \in IF failed = "create_external_table"
                     THEN {FALSE, ext}
                     ELSE {~ok}
         /\ demo' \in CASE failed \in {"create_external_table", "truncate",
                                       "insert"}
                              -> {demo}
                         [] failed = "commit" -> {demo, Inserted(demo, source)}
                         [] OTHER -> {Inserted(demo, source)}
         /\ loads' = IF ok THEN Append(loads, demo') ELSE loads
    /\ UNCHANGED <<script, exit_status, captured, mon, data, source, stage,
                   runs>>

\* cur.execute(IMPORT_PLSQL): the inner block drops CO_DEMO_EXT if it can,
\* then CREATE_EXTERNAL_TABLE, TRUNCATE TABLE CUSTOMER_ORDERS_DEMO, INSERT ...
\* SELECT FROM CO_DEMO_EXT, COMMIT and DROP TABLE CO_DEMO_EXT; the first
\* statement that fails ends the block with what came before it done (the
\* TRUNCATE, being DDL, is not undone; an INSERT that was not committed is).
import_cloud_import ==
    /\ script = "import_cloud"
    /\ pc = "import"
    /\ \E failed \in ImportSteps \cup {"none"} :
         LET ok == failed = "none" IN
         /\ dblog' = Append(dblog, <<"IMPORT_PLSQL", ok>>)
         /\ connOpen' = IF ok THEN connOpen ELSE connOpen - 1
         /\ pc' = IF ok THEN "count" ELSE "handler"
         /\ out' = IF ok THEN Append(out, <<"copy_completed">>) ELSE out
         /\ ext' \in IF failed = "create_external_table"
                     THEN {FALSE, ext}
                     ELSE {~ok}
         /\ demo' \in CASE failed \in {"create_external_table", "truncate"}
                              -> {demo}
                         [] failed = "insert" -> {EmptyTable}
                         [] failed = "commit"
                              -> {EmptyTable, Inserted(EmptyTable, source)}
                         [] OTHER -> {Inserted(EmptyTable, source)}
         /\ loads' = IF ok THEN Append(loads, demo') ELSE loads
    /\ UNCHANGED <<script, exit_status, captured, mon, data, source, stage,
                   runs>>

import_cloud_count ==
    /\ script = "import_cloud"
    /\ Execute("count", "SELECT_COUNT", "finish", "handler", TRUE,
               << <<"row_count">> >>)

import_cloud_handler ==
    /\ script = "import_cloud"
    /\ HandlerExit("handler", <<"error">>)

import_cloud_finish ==
    /\ script = "import_cloud"
    /\ Finish("finish", << <<"finished">> >>)

import_cloud ==
    \/ import_cloud_connect
    \/ import_cloud_import
    \/ import_cloud_count
    \/ import_cloud_handler
    \/ import_cloud_finish

----------------------------------------------------------------------------
(* import_final.py *)

import_final_connect ==
    /\ script = "import_final"
    /\ Connect("connect", "connect", "truncate", "handler")

\* variant: an error of the TRUNCATE is ignored and the load still runs
import_final_truncate_ignores_error ==
    /\ script = "import_final"
    /\ pc = "truncate"
    /\ \E ok \in BOOLEAN : dblog' = Append(dblog, <<"TRUNCATE", ok>>)
    /\ pc' = "copy"
    /\ UNCHANGED <<script, connOpen, exit_status, captured, out, mon, data, tables>>

import_final_truncate ==
    /\ script = "import_final"
    /\ ExecuteOnTables("truncate", "TRUNCATE", "copy", "handler", FALSE, << >>)
    /\ demo' = IF Succeeded' THEN EmptyTable ELSE demo
    /\ UNCHANGED <<ext, stage, loads>>

\* variant: a failed load puts back the rows of the latest completed load
import_final_copy_restores ==
    /\ script = "import_final"
    /\ ExecuteOnTables("copy", "COPY_DATA", "commit", "handler", FALSE, << >>)
    /\ demo' = IF Succeeded'
               THEN Inserted(demo, source)
               ELSE IF loads # << >> THEN loads[Len(loads)] ELSE demo
    /\ loads' = IF Succeeded' THEN Append(loads, demo') ELSE loads
    /\ UNCHANGED <<ext, stage>>

\* DBMS_CLOUD.COPY_DATA into CUSTOMER_ORDERS_DEMO
import_final_copy ==
    /\ script = "import_final"
    /\ ExecuteOnTables("copy", "COPY_DATA", "commit", "handler", FALSE, << >>)
    /\ demo' = IF Succeeded' THEN Inserted(demo, source) ELSE demo
    /\ loads' = IF Succeeded' THEN Append(loads, demo') ELSE loads
    /\ UNCHANGED <<ext, stage>>

import_final_commit ==
    /\ script = "import_final"
    /\ Execute("commit", "commit", "count", "handler", FALSE, << >>)

\* the verification query; it prints the success or the empty-table line
import_final_count ==
    /\ script = "import_final"
    /\ Execute("count", "SELECT_COUNT", "done", "handler", TRUE,
               << <<"verified">> >>)

import_final_handler ==
    /\ script = "import_final"
    /\ HandlerExit("handler", <<"error">>)

import_final ==
    \/ import_final_connect
    \/ import_final_truncate
    \/ import_final_copy
    \/ import_final_commit
    \/ import_final_count
    \/ import_final_handler

----------------------------------------------------------------------------
(* import_noclobs.py *)

noclobs_connect ==
    /\ script = "import_noclobs"
    /\ Connect("connect", "connect", "create_stage", "handler")

noclobs_create_stage ==
    /\ script = "import_noclobs"
    /\ ExecuteOnTables("create_stage", "CREATE_STAGE", "copy_stage", "handler",
                       FALSE, << <<"stage_created">> >>)
    /\ stage # NoTable => ~Succeeded'
    /\ stage' = IF Succeeded' THEN EmptyTable ELSE stage
    /\ UNCHANGED <<demo, ext, loads>>

noclobs_copy_stage ==
    /\ script = "import_noclobs"
    /\ ExecuteOnTables("copy_stage", "COPY_DATA_STAGE", "truncate", "handler",
                       FALSE, << <<"stage_loaded">> >>)
    /\ stage' = IF Succeeded' THEN Inserted(stage, source) ELSE stage
    /\ UNCHANGED <<demo, ext, loads>>

noclobs_truncate ==
    /\ script = "import_noclobs"
    /\ ExecuteOnTables("truncate", "TRUNCATE", "insert_select", "handler",
                       FALSE, << >>)
    /\ demo' = IF Succeeded' THEN EmptyTable ELSE demo
    /\ UNCHANGED <<ext, stage, loads>>

noclobs_insert_select ==
    /\ script = "import_noclobs"
    /\ ExecuteOnTables("insert_select", "INSERT_SELECT", "drop_stage",
                       "handler", FALSE, << <<"copied">> >>)
    /\ demo' = IF Succeeded' THEN Inserted(demo, stage) ELSE demo
    /\ loads' = IF Succeeded' THEN Append(loads, demo') ELSE loads
    /\ UNCHANGED <<ext, stage>>

noclobs_drop_stage ==
    /\ script = "import_noclobs"
    /\ ExecuteOnTables("drop_stage", "DROP_STAGE", "commit", "handler", FALSE,
                       << >>)
    /\ stage' = IF Succeeded' THEN NoTable ELSE stage
    /\ UNCHANGED <<demo, ext, loads>>

noclobs_commit ==
    /\ script = "import_noclobs"
    /\ Execute("commit", "commit", "count", "handler", FALSE, << >>)

noclobs_count ==
    /\ script = "import_noclobs"
    /\ Execute("count", "SELECT_COUNT", "done", "handler", TRUE,
               << <<"success">> >>)

\* variant: the handler exits without the cleanup block
noclobs_handler_exits_at_once ==
    /\ script = "import_noclobs"
    /\ pc = "handler"
    /\ captured' = captured + 1
    /\ out' = Append(out, <<"error">>)
    /\ pc' = "exit"
    /\ UNCHANGED <<script, connOpen, exit_status, dblog, mon, data, tables>>

\* except Exception as e: print(...), then the cleanup try block:
\* a fresh connection
noclobs_handler ==
    /\ script = "import_noclobs"
    /\ pc = "handler"
    /\ captured' = captured + 1
    /\ out' = Append(out, <<"error">>)
    /\ pc' = "cleanup_connect"
    /\ UNCHANGED <<script, connOpen, exit_status, dblog, mon, data, tables>>

\* with oracledb.connect(...) as conn, inside try / except: pass
noclobs_cleanup_connect ==
    /\ script = "import_noclobs"
    /\ pc = "cleanup_connect"
    /\ \E ok \in BOOLEAN :
         /\ dblog' = Append(dblog, <<"connect", ok>>)
         /\ IF ok
            THEN /\ connOpen' = connOpen + 1
                 /\ pc' = "cleanup_drop"
                 /\ UNCHANGED captured
            ELSE /\ captured' = captured + 1
                 /\ pc' = "exit"
                 /\ UNCHANGED connOpen
    /\ UNCHANGED <<script, exit_status, out, mon, data, tables>>

\* conn.cursor().execute("DROP TABLE customer_orders_stage PURGE")
noclobs_cleanup_drop ==
    /\ script = "import_noclobs"
    /\ pc = "cleanup_drop"
    /\ \E ok \in IF stage = NoTable THEN {FALSE} ELSE BOOLEAN :
         /\ dblog' = Append(dblog, <<"DROP_STAGE", ok>>)
         /\ captured' = IF ok THEN captured ELSE captured + 1
         /\ stage' = IF ok THEN NoTable ELSE stage
    /\ connOpen' = connOpen - 1
    /\ pc' = "exit"
    /\ UNCHANGED <<script, exit_status, out, mon, data, source, demo, ext,
                   loads, runs>>

\* sys.exit(1)
noclobs_exit ==
    /\ script = "import_noclobs"
    /\ pc = "exit"
    /\ exit_status' = 1
    /\ pc' = "done"
    /\ UNCHANGED <<script, connOpen, captured, dblog, out, mon, data, tables>>

import_noclobs ==
    \/ noclobs_connect
    \/ noclobs_create_stage
    \/ noclobs_copy_stage
    \/ noclobs_truncate
    \/ noclobs_insert_select
    \/ noclobs_drop_stage
    \/ noclobs_commit
    \/ noclobs_count
    \/ noclobs_handler
    \/ noclobs_cleanup_connect
    \/ noclobs_cleanup_drop
    \/ noclobs_exit

----------------------------------------------------------------------------
(* setup_object_storage_adbsj.py *)

setup_connect ==
    /\ script = "setup_object_storage_adbsj"
    /\ Connect("connect", "connect", "create_cred", "handler")

\* cur.execute(CREATE_CRED_PLSQL) in its own try: an error is printed as a
\* warning and the script goes on
setup_create_cred ==
    /\ script = "setup_object_storage_adbsj"
    /\ pc = "create_cred"
    /\ \E ok \in BOOLEAN :
         /\ dblog' = Append(dblog, <<"CREATE_CRED", ok>>)
         /\ captured' = IF ok THEN captured ELSE captured + 1
         /\ out' = Append(out, IF ok THEN <<"credential_created">>
                                     ELSE <<"warning">>)
    /\ pc' = "create_dir"
    /\ UNCHANGED <<script, connOpen, exit_status, mon, data, tables>>

setup_create_dir ==
    /\ script = "setup_object_storage_adbsj"
    /\ Execute("create_dir", "CREATE_DIR", "check_cred", "handler", FALSE,
               << <<"directory_created">> >>)

setup_check_cred ==
    /\ script = "setup_object_storage_adbsj"
    /\ Execute("check_cred", "CHECK_CRED", "check_dir", "handler", FALSE,
               << <<"credential_checked">> >>)

setup_check_dir ==
    /\ script = "setup_object_storage_adbsj"
    /\ Execute("check_dir", "CHECK_DIR", "commit", "handler", FALSE,
               << <<"directory_checked">> >>)

setup_commit ==
    /\ script = "setup_object_storage_adbsj"
    /\ Execute("commit", "commit", "done", "handler", TRUE, << >>)

setup_handler ==
    /\ script = "setup_object_storage_adbsj"
    /\ HandlerExit("handler", <<"error">>)

setup_object_storage_adbsj ==
    \/ setup_connect
    \/ setup_create_cred
    \/ setup_create_dir
    \/ setup_check_cred
    \/ setup_check_dir
    \/ setup_commit
    \/ setup_handler

----------------------------------------------------------------------------
(* cleanup_job.py *)

cleanup_connect ==
    /\ script = "cleanup_job"
    /\ Connect("connect", "connect", "count_jobs", "handler")

\* SELECT COUNT(*) FROM dba_datapump_jobs ...; count = cur.fetchone()[0];
\* the branch on count == 0
cleanup_count_jobs ==
    /\ script = "cleanup_job"
    /\ pc = "count_jobs"
    /\ \E ok \in BOOLEAN :
         /\ dblog' = Append(dblog, <<"COUNT_JOBS", ok>>)
         /\ IF ok
            THEN /\ \E count \in {0, 1} :
                      IF count = 0
                      THEN /\ out' = Append(out, <<"no_job">>)
                           /\ pc' = "commit"
                      ELSE /\ out' = Append(out, <<"found_jobs">>)
                           /\ pc' = "stop_job"
                 /\ UNCHANGED connOpen
            ELSE /\ pc' = "handler"
                 /\ connOpen' = connOpen - 1
                 /\ UNCHANGED out
    /\ UNCHANGED <<script, exit_status, captured, mon, data, tables>>

\* the ATTACH / STOP_JOB block in its own try: an error is printed and the
\* script goes on to the commit
cleanup_stop_job ==
    /\ script = "cleanup_job"
    /\ pc = "stop_job"
    /\ \E ok \in BOOLEAN :
         /\ dblog' = Append(dblog, <<"STOP_JOB", ok>>)
         /\ captured' = IF ok THEN captured ELSE captured + 1
         /\ out' = Append(out, IF ok THEN <<"job_stopped">>
                                     ELSE <<"cleanup_error">>)
    /\ pc' = "commit"
    /\ UNCHANGED <<script, connOpen, exit_status, mon, data, tables>>

cleanup_commit ==
    /\ script = "cleanup_job"
    /\ Execute("commit", "commit", "done", "handler", TRUE, << >>)

cleanup_handler ==
    /\ script = "cleanup_job"
    /\ HandlerExit("handler", <<"error">>)

cleanup_job ==
    \/ cleanup_connect
    \/ cleanup_count_jobs
    \/ cleanup_stop_job
    \/ cleanup_commit
    \/ cleanup_handler

----------------------------------------------------------------------------
(* check_errors.py: no try block, so an exception ends the process with a  *)
(* traceback and status 1                                                  *)

check_connect ==
    /\ script = "check_errors"
    /\ pc = "connect"
    /\ \E ok \in BOOLEAN :
         /\ dblog' = Append(dblog, <<"connect", ok>>)
         /\ IF ok
            THEN /\ connOpen' = connOpen + 1
                 /\ pc' = "find_log"
                 /\ UNCHANGED exit_status
            ELSE /\ exit_status' = 1
                 /\ pc' = "done"
                 /\ UNCHANGED connOpen
    /\ UNCHANGED <<script, captured, out, mon, data, tables>>

\* the query for the latest log table and fetchone()[0]; with no such table
\* fetchone() is None and the subscript raises
check_find_log ==
    /\ script = "check_errors"
    /\ pc = "find_log"
    /\ \E ok \in BOOLEAN :
         /\ dblog' = Append(dblog, <<"SELECT_LOG_TABLE", ok>>)
         /\ \E found \in BOOLEAN :
              IF ok /\ found
              THEN /\ out' = Append(out, <<"checking">>)
                   /\ pc' = "records"
                   /\ UNCHANGED <<connOpen, exit_status>>
              ELSE /\ exit_status' = 1
                   /\ connOpen' = connOpen - 1
                   /\ pc' = "done"
                   /\ UNCHANGED out
    /\ UNCHANGED <<script, captured, mon, data, tables>>

\* SELECT RECORD FROM the log table, and the loop over the cursor
check_records ==
    /\ script = "check_errors"
    /\ pc = "records"
    /\ \E ok \in BOOLEAN :
         /\ dblog' = Append(dblog, <<"SELECT_RECORD", ok>>)
         /\ exit_status' = IF ok THEN exit_status ELSE 1
         /\ out' = IF ok THEN Append(out, <<"records">>) ELSE out
    /\ connOpen' = connOpen - 1
    /\ pc' = "done"
    /\ UNCHANGED <<script, captured, mon, data, tables>>

check_errors ==
    \/ check_connect
    \/ check_find_log
    \/ check_records

----------------------------------------------------------------------------
(* test_connections.py *)

\* test_db_connection("adb_sanjose ...")
test_sj_connect ==
    /\ script = "test_connections"
    /\ pc = "connect"
    /\ \E ok \in BOOLEAN :
         /\ dblog' = Append(dblog, <<"connect_sj", ok>>)
         /\ IF ok
            THEN /\ connOpen' = connOpen + 1
                 /\ pc' = "select_sj"
                 /\ UNCHANGED <<captured, out>>
            ELSE /\ captured' = captured + 1
                 /\ out' = Append(out, <<"failed", "sj">>)
                 /\ pc' = "connect_phx"
                 /\ UNCHANGED connOpen
    /\ sj_ok' = FALSE
    /\ UNCHANGED <<script, exit_status, mon, conf, inserted, batches, phx_ok, tables>>

test_sj_select ==
    /\ script = "test_connections"
    /\ pc = "select_sj"
    /\ \E ok \in BOOLEAN :
         /\ dblog' = Append(dblog, <<"SELECT_1_sj", ok>>)
         /\ sj_ok' = ok
         /\ captured' = IF ok THEN captured ELSE captured + 1
         /\ out' = Append(out, IF ok THEN <<"success", "sj">>
                                     ELSE <<"failed", "sj">>)
    /\ connOpen' = connOpen - 1
    /\ pc' = "connect_phx"
    /\ UNCHANGED <<script, exit_status, mon, conf, inserted, batches, phx_ok, tables>>

\* test_db_connection("adb_phoenix ...")
test_phx_connect ==
    /\ script = "test_connections"
    /\ pc = "connect_phx"
    /\ \E ok \in BOOLEAN :
         /\ dblog' = Append(dblog, <<"connect_phx", ok>>)
         /\ IF ok
            THEN /\ connOpen' = connOpen + 1
                 /\ pc' = "select_phx"
                 /\ UNCHANGED <<captured, out>>
            ELSE /\ captured' = captured + 1
                 /\ out' = Append(out, <<"failed", "phx">>)
                 /\ pc' = "summary"
                 /\ UNCHANGED connOpen
    /\ phx_ok' = FALSE
    /\ UNCHANGED <<script, exit_status, mon, conf, inserted, batches, sj_ok, tables>>

test_phx_select ==
    /\ script = "test_connections"
    /\ pc = "select_phx"
    /\ \E ok \in BOOLEAN :
         /\ dblog' = Append(dblog, <<"SELECT_1_phx", ok>>)
         /\ phx_ok' = ok
         /\ captured' = IF ok THEN captured ELSE captured + 1
         /\ out' = Append(out, IF ok THEN <<"success", "phx">>
                                     ELSE <<"failed", "phx">>)
    /\ connOpen' = connOpen - 1
    /\ pc' = "summary"
    /\ UNCHANGED <<script, exit_status, mon, conf, inserted, batches, sj_ok, tables>>

\* variant: the script fails only when neither test passed
test_summary_fails_when_both_fail ==
    /\ script = "test_connections"
    /\ pc = "summary"
    /\ out' = Append(out, <<"summary">>)
    /\ exit_status' = IF ~(sj_ok \/ phx_ok) THEN 1 ELSE exit_status
    /\ pc' = "done"
    /\ UNCHANGED <<script, connOpen, captured, dblog, mon, data, tables>>

\* the summary, and sys.exit(1) unless both tests passed
test_summary ==
    /\ script = "test_connections"
    /\ pc = "summary"
    /\ out' = Append(out, <<"summary">>)
    /\ exit_status' = IF ~(sj_ok /\ phx_ok) THEN 1 ELSE exit_status
    /\ pc' = "done"
    /\ UNCHANGED <<script, connOpen, captured, dblog, mon, data, tables>>

test_connections ==
    \/ test_sj_connect
    \/ test_sj_select
    \/ test_phx_connect
    \/ test_phx_select
    \/ test_summary

----------------------------------------------------------------------------
(* The operator runs a loading script once more: a new process, against    *)
(* the tables the earlier run left and the same file.                      *)

Loaders == {"import_cloud", "import_final", "import_noclobs"}

RunAgain ==
    /\ script \in Loaders
    /\ pc = "done"
    /\ runs + 1 < MaxRuns
    /\ runs' = runs + 1
    /\ pc' = "connect"
    /\ exit_status' = 0
    /\ captured' = 0
    /\ dblog' = << >>
    /\ out' = << >>
    /\ UNCHANGED <<script, connOpen, mon, data, source, demo, ext, stage,
                   loads>>

----------------------------------------------------------------------------
(* Specification *)

Init ==
    /\ script \in Scripts
    /\ pc = "connect"
    /\ connOpen = 0
    /\ exit_status = 0
    /\ captured = 0
    /\ dblog = << >>
    /\ out = << >>
    /\ job \in IF script \in {"export_datapump", "import_datapump"}
               THEN Rows \cup {NoRow}
               ELSE {NoRow}
    /\ last_state = None
    /\ row = NoRow
    /\ skipped = FALSE
    /\ events = << >>
    /\ \E c \in IF script = "generate_customer_orders_demo"
                 THEN Configurations
                 ELSE {Configured} :
         /\ TOTAL_ROWS = c[1]
         /\ BATCH_SIZE = c[2]
         /\ PROGRESS_INTERVAL = c[3]
    /\ inserted = 0
    /\ batches = << >>
    /\ sj_ok = FALSE
    /\ phx_ok = FALSE
    /\ source \in IF script \in Loaders THEN Tables ELSE {EmptyTable}
    /\ demo \in IF script \in Loaders
                THEN Tables
                ELSE IF script = "fix_table_phoenix"
                     THEN Tables \cup {NoTable}
                     ELSE {EmptyTable}
    /\ ext = FALSE
    /\ stage = NoTable
    /\ loads = << >>
    /\ runs = 0

Next ==
    \/ JobStep
    \/ RunAgain
    \/ export_datapump
    \/ import_datapump
    \/ export_cloud
    \/ import_cloud
    \/ import_final
    \/ import_noclobs
    \/ generate_customer_orders_demo
    \/ fix_table_phoenix
    \/ setup_object_storage_adbsj
    \/ cleanup_job
    \/ check_errors
    \/ test_connections

Spec == Init /\ [][Next]_vars

\* The interpreter keeps executing the script: a step of the running script
\* that can be taken is eventually taken.  Nothing is assumed of the job.
ScriptStep ==
    \/ export_datapump
    \/ import_datapump
    \/ export_cloud
    \/ import_cloud
    \/ import_final
    \/ import_noclobs
    \/ generate_customer_orders_demo
    \/ fix_table_phoenix
    \/ setup_object_storage_adbsj
    \/ cleanup_job
    \/ check_errors
    \/ test_connections

FairSpec == Spec /\ WF_vars(ScriptStep)

----------------------------------------------------------------------------
(* Vocabulary of the properties *)

IsDatapump == script \in {"export_datapump", "import_datapump"}

JobName == IF script = "export_datapump" THEN "CO_DEMO_EXPORT" ELSE "CO_DEMO_IMPORT"

IsNotification(m) ==
    m[1] \in {"transition", "terminal", "not_found", "no_longer_listed"}
IsTransition(m) == m[1] = "transition"
IsAbsence(m) == m[1] \in {"not_found", "no_longer_listed"}

\* what monitor_job has printed about the job, in order
Notifications == SelectSeq(out, IsNotification)
Transitions == SelectSeq(out, IsTransition)

\* a poll that returned a row / no row / a row in one of the three states
PollAt(i) == events[i][1] = "poll"
NoRowAt(i) == PollAt(i) /\ events[i][2] = NoRow
RowAt(i) == PollAt(i) /\ events[i][2] # NoRow
StateAt(i) == events[i][2][1]

\* the states of the rows the polls returned, in order
IsRowPoll(e) == e[1] = "poll" /\ e[2] # NoRow
ObservedStates ==
    LET polls == SelectSeq(events, IsRowPoll)
    IN  [i \in 1..Len(polls) |-> polls[i][2][1]]

\* the observed states the loop body has already handled
Processed ==
    IF pc = "check" /\ row # NoRow
    THEN SubSeq(ObservedStates, 1, Len(ObservedStates) - 1)
    ELSE ObservedStates

\* s without the elements equal to their predecessor
RECURSIVE Dedup(_)
Dedup(s) ==
    IF Len(s) <= 1
    THEN s
    ELSE LET d == Dedup(SubSeq(s, 1, Len(s) - 1))
         IN  IF s[Len(s)] = s[Len(s) - 1] THEN d ELSE Append(d, s[Len(s)])

----------------------------------------------------------------------------
(* C1 *)

\* C1: a poll that returns no row is the last thing monitor_job does: no
\* poll and no sleep follows it, the watcher is not left waiting, and once the
\* row is handled exactly one absence notification has been printed, as the
\* last notification, and monitor_job has returned.
C1_NoRowStopsWatcher ==
    \A i \in 1..Len(events) :
        NoRowAt(i) =>
            /\ i = Len(events)
            /\ pc \notin {"fetch", "sleep"}
            /\ pc # "check" =>
                 /\ pc \in {"finish", "verify", "handler", "done"}
                 /\ Len(SelectSeq(out, IsAbsence)) = 1
                 /\ IsAbsence(Notifications[Len(Notifications)])

\* the record disappears after it was seen, and the script has ended
C1_Witness ==
    /\ pc = "done"
    /\ Len(events) = 3
    /\ RowAt(1)
    /\ NoRowAt(3)

----------------------------------------------------------------------------
(* C2 *)

\* C2: a poll that observes COMPLETED, STOPPED or FAILED is the last event of
\* the watcher, whichever poll it is, and once handled the terminal
\* notification for that state is the last notification; a poll that observes
\* any other state leaves the watcher in the loop: it is followed by a sleep.
C2_TerminalStatesStopWatcher ==
    \A i \in 1..Len(events) :
        RowAt(i) =>
            IF StateAt(i) \in {"COMPLETED", "STOPPED", "FAILED"}
            THEN /\ i = Len(events)
                 /\ pc \notin {"fetch", "sleep"}
                 /\ pc # "check" =>
                      /\ pc \in {"finish", "verify", "handler", "done"}
                      /\ Notifications # << >>
                      /\ Notifications[Len(Notifications)]
                           = <<"terminal", JobName, StateAt(i)>>
            ELSE \/ i = Len(events) /\ pc \in {"check", "sleep"}
                 \/ i < Len(events) /\ events[i + 1][1] = "sleep"

\* STOPPED first observed on the second poll
C2_Witness ==
    /\ pc = "done"
    /\ Len(events) = 3
    /\ RowAt(1)
    /\ RowAt(3)
    /\ StateAt(3) = "STOPPED"

----------------------------------------------------------------------------
(* C3 *)

\* C3: the transition notifications are exactly the observed states with
\* repeats of the previous poll's state left out: as many as there are polls
\* whose state differs from the previous poll's (the first one counting as a
\* change), reporting those states in order; RUNNING, RUNNING, COMPLETED
\* gives two.
C3_TransitionPerChange ==
    IsDatapump =>
        /\ Len(Transitions)
             = Cardinality({i \in 1..Len(Processed) :
                              i = 1 \/ Processed[i] # Processed[i - 1]})
        /\ [i \in 1..Len(Transitions) |-> Transitions[i][2]] = Dedup(Processed)
        /\ Processed = <<"RUNNING", "RUNNING", "COMPLETED">>
             => Len(Transitions) = 2

C3_Witness ==
    /\ pc = "done"
    /\ ObservedStates = <<"RUNNING", "RUNNING", "COMPLETED">>
    /\ Len(Transitions) = 2

----------------------------------------------------------------------------
(* C4 *)

\* C4: when the first poll returns no row, it is the only event of the
\* watcher (one poll, no sleep), and the only notification ever printed is one
\* "not found".
C4_FirstPollNoRow ==
    (events # << >> /\ NoRowAt(1)) =>
        /\ NumPolls = 1
        /\ NumSleeps = 0
        /\ pc \notin {"fetch", "sleep"}
        /\ Notifications = IF pc = "check"
                           THEN << >>
                           ELSE << <<"not_found", JobName>> >>

C4_Witness ==
    /\ pc = "done"
    /\ exit_status = 0
    /\ events = << <<"poll", NoRow>> >>
    /\ Notifications = << <<"not_found", JobName>> >>

----------------------------------------------------------------------------
(* C5 *)

\* C5: when the first poll observes FAILED, it is the only event of the
\* watcher (one poll, no sleep), and what is printed is one transition
\* notification followed by the terminal notification.
C5_FirstPollFailed ==
    (events # << >> /\ RowAt(1) /\ StateAt(1) = "FAILED") =>
        /\ NumPolls = 1
        /\ NumSleeps = 0
        /\ pc \notin {"fetch", "sleep"}
        /\ pc # "check" =>
             /\ Len(Transitions) = 1
             /\ Notifications = << <<"transition", "FAILED", events[1][2][2]>>,
                                   <<"terminal", JobName, "FAILED">> >>

C5_Witness ==
    /\ pc = "done"
    /\ Len(events) = 1
    /\ RowAt(1)
    /\ StateAt(1) = "FAILED"
    /\ Len(Transitions) = 1

----------------------------------------------------------------------------
(* C6 *)

\* C6: the watcher's events alternate poll, sleep of 5, poll, ...: every poll
\* that is not the last event observed a present, non-terminal state and is
\* followed by one sleep of 5; every sleep is followed by a poll; and the
\* watcher is about to poll again only after a sleep.
C6_SleepBetweenPolls ==
    /\ \A i \in 1..Len(events) :
         /\ i = 1 => IsPoll(events[i])
         /\ IsSleep(events[i]) => events[i][2] = 5
         /\ (IsPoll(events[i]) /\ i < Len(events)) =>
              /\ events[i + 1] = <<"sleep", 5>>
              /\ RowAt(i)
              /\ StateAt(i) \notin {"COMPLETED", "STOPPED", "FAILED"}
         /\ (IsSleep(events[i]) /\ i < Len(events)) => IsPoll(events[i + 1])
    /\ (pc = "fetch" /\ events # << >>) => IsSleep(events[Len(events)])
    /\ pc = "sleep" =>
         /\ events # << >>
         /\ RowAt(Len(events))
         /\ StateAt(Len(events)) \notin {"COMPLETED", "STOPPED", "FAILED"}
    /\ NumPolls - 1 <= NumSleeps
    /\ NumSleeps <= NumPolls

\* three polls with the two sleeps between them
C6_Witness ==
    /\ NumPolls = 3
    /\ NumSleeps = 2
    /\ pc = "check"

----------------------------------------------------------------------------
(* C7 *)

\* monitor_job is not running (any more)
WatcherStopped == pc \in {"finish", "verify", "handler", "done"}

\* C7: (a) once a poll has returned a terminal state or no row, monitor_job
\* stops; (b) if from some point on the job stays terminal or absent, then
\* monitor_job stops (by returning, or by raising when a fetch fails).
C7_WatcherEventuallyStops ==
    /\ (pc = "check" /\ (row = NoRow
                          \/ row[1] \in {"COMPLETED", "STOPPED", "FAILED"}))
         ~> WatcherStopped
    /\ <>[](job = NoRow \/ job[1] \in {"COMPLETED", "STOPPED", "FAILED"})
         => <>WatcherStopped

\* the watcher has stopped on a terminal state seen at a later poll
C7_Witness ==
    /\ WatcherStopped
    /\ Len(events) >= 3
    /\ RowAt(Len(events))
    /\ StateAt(Len(events)) = "COMPLETED"

----------------------------------------------------------------------------
(* C8 *)

\* C8: a fetch that raises is the last database call and the last event of
\* the run: no poll, no sleep and no row-count query follows; nothing has
\* caught the error before main's handler; the completion message is never
\* printed; and the script ends with the error message last and status 1.
C8_FetchErrorIsFatal ==
    \A i \in 1..Len(events) :
        events[i][1] = "raise" =>
            /\ i = Len(events)
            /\ dblog[Len(dblog)] = <<"SELECT_JOB_STATE", FALSE>>
            /\ pc \in {"handler", "done"}
            /\ pc = "handler" => captured = 0
            /\ \A k \in 1..Len(out) : out[k] # <<"completed">>
            /\ pc = "done" =>
                 /\ captured = 1
                 /\ exit_status = 1
                 /\ out[Len(out)] = <<"error">>

\* the second poll of import_datapump raised and the script has ended
C8_Witness ==
    /\ script = "import_datapump"
    /\ pc = "done"
    /\ Len(events) = 3
    /\ events[3][1] = "raise"

----------------------------------------------------------------------------
(* C9 *)

\* C9: a script that has caught an exception ends with a non-zero status
\* (equivalently: status zero only when nothing was caught).
C9_CapturedFailureExitsNonZero ==
    (pc = "done" /\ captured > 0) => exit_status # 0

----------------------------------------------------------------------------
(* C10 *)

HandledLocally(i) ==
    \/ script = "setup_object_storage_adbsj" /\ dblog[i][1] = "CREATE_CRED"
    \/ script = "cleanup_job" /\ dblog[i][1] = "STOP_JOB"
    \/ script = "test_connections" /\ dblog[i][1] \in {"connect_sj", "SELECT_1_sj"}
    \/ /\ script = "import_noclobs"
       /\ Len(dblog) <= i + 2
       /\ dblog[i + 1][1] = "connect"
       /\ Len(dblog) = i + 2 =>
            /\ dblog[i + 1][2]
            /\ dblog[i + 2][1] = "DROP_STAGE"

----------------------------------------------------------------------------
(* C11 *)

\* a connection was opened during the run
OpenedConnection ==
    \E i \in 1..Len(dblog) :
        /\ dblog[i][1] \in {"connect", "connect_sj", "connect_phx"}
        /\ dblog[i][2]

\* C11: no script ends with a database connection open, whichever way it
\* ends (falling off its end, an early return, or sys.exit(1) in a handler),
\* and the connection is already closed when an except clause starts running;
\* a script never holds more than one connection.
C11_ConnectionsClosedAtExit ==
    /\ connOpen \in {0, 1}
    /\ pc = "done" => connOpen = 0
    /\ pc \in {"handler", "exit"} => connOpen = 0

\* export_datapump ended through its handler after the watcher raised while
\* the connection was open
C11_Witness ==
    /\ script = "export_datapump"
    /\ pc = "done"
    /\ exit_status = 1
    /\ OpenedConnection
    /\ events # << >>
    /\ events[Len(events)][1] = "raise"
    /\ connOpen = 0

----------------------------------------------------------------------------
(* C12 *)

\* the watcher has stopped because a poll returned no row
StoppedOnNoRow ==
    /\ events # << >>
    /\ NoRowAt(Len(events))
    /\ pc # "check"

\* the row count that follows the watcher in import_datapump raised
VerificationRaised ==
    /\ script = "import_datapump"
    /\ dblog # << >>
    /\ dblog[Len(dblog)] = <<"SELECT_COUNT", FALSE>>

\* C12 as stated: a run whose watcher stopped on a missing status record
\* ends with the completion message and exit status zero, no exception
\* having been raised.
C12_NoRowEndsWithStatusZero ==
    (StoppedOnNoRow /\ pc = "done") =>
        /\ exit_status = 0
        /\ captured = 0
        /\ out[Len(out)] = <<"completed">>

\* C12, amended: a missing status record makes monitor_job return without
\* an exception and the caller goes on past it; export_datapump then prints
\* its completion message and ends with status zero, and so does
\* import_datapump unless the row count it runs after the watcher raises,
\* which is the only way such a run reaches the handler and status 1.
C12_NoRowIsNormalOutcome ==
    StoppedOnNoRow =>
        /\ pc \in {"finish", "verify", "handler", "done"}
        /\ pc = "handler" => VerificationRaised
        /\ pc \in {"finish", "verify"} => captured = 0
        /\ pc = "done" =>
             IF VerificationRaised
             THEN exit_status = 1
             ELSE /\ exit_status = 0
                  /\ captured = 0
                  /\ out[Len(out)] = <<"completed">>

\* import_datapump found the record gone at its second poll, counted the
\* rows and ended normally
C12_Witness ==
    /\ script = "import_datapump"
    /\ pc = "done"
    /\ Len(events) = 3
    /\ NoRowAt(3)
    /\ exit_status = 0
    /\ dblog[Len(dblog)] = <<"SELECT_COUNT", TRUE>>
    /\ out[Len(out)] = <<"completed">>

----------------------------------------------------------------------------
(* C13 *)

\* C13: last_state is None as long as no row has been handled, and after
\* each handled row it is the state of that row, whatever was observed
\* earlier; so a state that comes back after a different one is reported
\* again: states A, B, A with A # B give the three transition notifications
\* A, B, A.
C13_LastStateIsPreviousState ==
    IsDatapump =>
        /\ last_state = IF Processed = << >>
                        THEN None
                        ELSE Processed[Len(Processed)]
        /\ \A A, B \in JobStates :
             (A # B /\ Processed = <<A, B, A>>) =>
                 /\ Len(Transitions) = 3
                 /\ Transitions[1][2] = A
                 /\ Transitions[2][2] = B
                 /\ Transitions[3][2] = A

\* RUNNING, EXECUTING, RUNNING have been handled
C13_Witness ==
    /\ pc = "sleep"
    /\ Processed = <<"RUNNING", "EXECUTING", "RUNNING">>
    /\ last_state = "RUNNING"
    /\ Len(Transitions) = 3

----------------------------------------------------------------------------
(* C14 *)

\* every poll so far returned a row in a state that is not terminal
AllPollsLive ==
    /\ events # << >>
    /\ \A i \in 1..Len(events) :
         IsPoll(events[i]) =>
             /\ RowAt(i)
             /\ StateAt(i) \notin {"COMPLETED", "STOPPED", "FAILED"}

\* the watcher is about to poll once more after MaxPolls polls and sleeps
ReachedPollBound ==
    /\ pc = "fetch"
    /\ NumPolls = MaxPolls
    /\ NumSleeps = MaxPolls

\* C14: (a) as long as every poll has returned a present, non-terminal
\* state, monitor_job is still in its loop however many polls it has made: it
\* has printed no stopping notification, has slept once after every handled
\* poll, and its next step (handle the row, sleep, poll again) can be taken;
\* (b) if the job stays present and non-terminal throughout, the watcher goes
\* on polling and sleeping up to the poll bound of the model, unless a
\* database call raises.
C14_NoTimeout ==
    /\ [](  (IsDatapump /\ AllPollsLive) =>
               /\ pc \in {"fetch", "check", "sleep"}
               /\ exit_status = 0
               /\ Notifications = Transitions
               /\ NumSleeps = IF pc = "fetch" THEN NumPolls ELSE NumPolls - 1
               /\ (pc \in {"check", "sleep"} \/ PollInBounds)
                    => ENABLED ScriptStep  )
    /\ (IsDatapump /\ [](job # NoRow /\ job[1] \in {"EXECUTING", "RUNNING"}))
         => <>(\/ ReachedPollBound
               \/ dblog # << >> /\ ~dblog[Len(dblog)][2])

\* three polls found the job running, and the watcher is back at the query
C14_Witness ==
    /\ AllPollsLive
    /\ pc = "fetch"
    /\ NumPolls = 3
    /\ NumSleeps = 3
    /\ job # NoRow
    /\ job[1] = "RUNNING"

----------------------------------------------------------------------------
(* C15 *)

\* positions in dblog of the connection attempts of the two tests
SanJoseAttempts == {i \in 1..Len(dblog) : dblog[i][1] = "connect_sj"}
PhoenixAttempts == {i \in 1..Len(dblog) : dblog[i][1] = "connect_phx"}

\* a test passed: it connected and its SELECT 1 FROM DUAL succeeded
SanJosePassed ==
    \E i \in 1..Len(dblog) : dblog[i] = <<"SELECT_1_sj", TRUE>>
PhoenixPassed ==
    \E i \in 1..Len(dblog) : dblog[i] = <<"SELECT_1_phx", TRUE>>

\* C15: a finished run of test_connections has tested each database exactly
\* once, San Jose before Phoenix, whether or not the San Jose test failed;
\* nothing of the Phoenix test is issued before the San Jose test is over; and
\* the exit status is 1 when at least one test failed and 0 when both passed.
C15_BothDatabasesTested ==
    script = "test_connections" =>
        /\ \A i \in SanJoseAttempts : \A j \in PhoenixAttempts : i < j
        /\ \A j \in PhoenixAttempts :
             /\ SanJoseAttempts # {}
             /\ \A k \in 1..Len(dblog) :
                  dblog[k][1] \in {"connect_sj", "SELECT_1_sj"} => k < j
        /\ pc = "done" =>
             /\ Cardinality(SanJoseAttempts) = 1
             /\ Cardinality(PhoenixAttempts) = 1
             /\ exit_status = IF SanJosePassed /\ PhoenixPassed THEN 0 ELSE 1
        /\ pc # "done" => exit_status = 0

\* the San Jose connection failed, the Phoenix test still ran and passed,
\* and the script ended with status 1
C15_Witness ==
    /\ script = "test_connections"
    /\ pc = "done"
    /\ dblog = << <<"connect_sj", FALSE>>,
                  <<"connect_phx", TRUE>>,
                  <<"SELECT_1_phx", TRUE>> >>
    /\ exit_status = 1

----------------------------------------------------------------------------
(* C16 *)

IsGenerate == script = "generate_customer_orders_demo"

\* the sum of the first n elements of s
RECURSIVE SumFirst(_, _)
SumFirst(s, n) == IF n = 0 THEN 0 ELSE SumFirst(s, n - 1) + s[n]

\* the executemany and commit calls of the insert loop, in order
IsLoopCall(c) == c[1] \in {"INSERT_BATCH", "commit"}
LoopCalls == SelectSeq(dblog, IsLoopCall)

\* the number of commits that succeeded
Committed == Len(SelectSeq(dblog, LAMBDA c : c = <<"commit", TRUE>>))

\* every database call issued so far succeeded
NoCallFailed == \A i \in 1..Len(dblog) : dblog[i][2]

\* the insert loop has been left by its condition
LoopFinished ==
    \E i \in 1..Len(dblog) : dblog[i][1] = "SELECT_COUNT"

\* C16: in generate_customer_orders_demo, for every positive TOTAL_ROWS and
\* BATCH_SIZE: (a) inserted is the sum of the committed batches and never
\* exceeds TOTAL_ROWS; (b) every batch holds min(BATCH_SIZE, rows remaining)
\* rows, at least one; (c) inserts and commits alternate, starting with an
\* insert, so each batch is followed by exactly one commit before the next
\* batch; (d) when the loop is left by its condition, exactly TOTAL_ROWS rows
\* have been inserted; (e) the run ends, and a run in which no statement
\* failed ends with the loop finished and TOTAL_ROWS rows inserted.
C16_InsertLoop ==
    /\ [](IsGenerate =>
            /\ inserted = SumFirst(batches, Committed)
            /\ inserted <= TOTAL_ROWS
            /\ Len(batches) - Committed \in {0, 1}
            /\ \A k \in 1..Len(batches) :
                 LET remaining == TOTAL_ROWS - SumFirst(batches, k - 1)
                 IN  /\ batches[k] >= 1
                     /\ batches[k] <= BATCH_SIZE
                     /\ batches[k] <= remaining
                     /\ batches[k] = BATCH_SIZE \/ batches[k] = remaining
            /\ \A i \in 1..Len(LoopCalls) :
                 /\ LoopCalls[i][1] = IF i % 2 = 1 THEN "INSERT_BATCH"
                                                   ELSE "commit"
                 /\ i < Len(LoopCalls) => LoopCalls[i][2]
            /\ LoopFinished =>
                 /\ inserted = TOTAL_ROWS
                 /\ SumFirst(batches, Len(batches)) = TOTAL_ROWS
                 /\ Committed = Len(batches)
            /\ (pc = "done" /\ NoCallFailed) =>
                 /\ LoopFinished
                 /\ inserted = TOTAL_ROWS)
    /\ IsGenerate => <>(pc = "done")

\* seven rows in batches of three: 3, 3 and the remaining 1
C16_Witness ==
    /\ IsGenerate
    /\ pc = "done"
    /\ NoCallFailed
    /\ TOTAL_ROWS = 7
    /\ BATCH_SIZE = 3
    /\ batches = <<3, 3, 1>>
    /\ inserted = 7

----------------------------------------------------------------------------
(* C18 *)

\* the values inserted has taken after each committed batch
Cumulative == [k \in 1..Committed |-> SumFirst(batches, k)]

\* the counts reported by the progress lines printed so far
ProgressLines == SelectSeq(out, LAMBDA m : m[1] = "progress")
Reported == [k \in 1..Len(ProgressLines) |-> ProgressLines[k][2]]

\* C18: the progress lines report, in order and once each, exactly those
\* values of the cumulative inserted count that are a multiple of
\* PROGRESS_INTERVAL or equal TOTAL_ROWS (one line when a value is both); with
\* the configuration in the file the lines of a finished loop report 10000,
\* 20000, 30000, 40000 and 50000.
C18_ProgressLines ==
    IsGenerate =>
        /\ Reported = SelectSeq(Cumulative,
                                LAMBDA v : \/ v % PROGRESS_INTERVAL = 0
                                           \/ v = TOTAL_ROWS)
        /\ \A i, j \in 1..Len(Reported) : i < j => Reported[i] < Reported[j]
        /\ (/\ TOTAL_ROWS = 50000
            /\ BATCH_SIZE = 5000
            /\ PROGRESS_INTERVAL = 10000
            /\ LoopFinished)
             => Reported = <<10000, 20000, 30000, 40000, 50000>>

\* the run with the configuration in the file has ended with its five lines
C18_Witness ==
    /\ IsGenerate
    /\ pc = "done"
    /\ TOTAL_ROWS = 50000
    /\ Len(batches) = 10
    /\ Reported = <<10000, 20000, 30000, 40000, 50000>>

----------------------------------------------------------------------------
(* C17 *)

\* IMPORT_PLSQL has completed in this run
ImportCompleted ==
    \E k \in 1..Len(dblog) : dblog[k] = <<"IMPORT_PLSQL", TRUE>>

\* C17: in import_cloud every completed import leaves CUSTOMER_ORDERS_DEMO
\* holding exactly the rows of the source file, one copy of each, whatever
\* the table held before; so a second completed import against the same file
\* leaves the rows the first one left, and the external table is gone again.
C17_ImportCloudIdempotent ==
    script = "import_cloud" =>
        /\ \A i \in 1..Len(loads) : loads[i] = source
        /\ Len(loads) = 2 => loads[2] = loads[1]
        /\ ImportCompleted =>
             /\ demo = source
             /\ demo = loads[1]
             /\ ~ext

\* the second run of import_cloud has ended normally; the file has rows, and
\* the table holds what the first run left
C17_Witness ==
    /\ script = "import_cloud"
    /\ runs = 1
    /\ pc = "done"
    /\ exit_status = 0
    /\ Len(loads) = 2
    /\ source = [r \in OrderIds |-> 1]
    /\ demo = loads[1]

----------------------------------------------------------------------------
(* C19 *)

\* the block that submits the job
SubmitCall == IF script = "export_datapump" THEN "EXPORT_PLSQL" ELSE "IMPORT_PLSQL"

\* positions in dblog of the submissions and of the status queries
Submissions == {i \in 1..Len(dblog) : dblog[i][1] = SubmitCall}
StatusQueries == {i \in 1..Len(dblog) : dblog[i][1] = "SELECT_JOB_STATE"}

\* C19: in export_datapump and import_datapump (a) the job is submitted at
\* most once, and every status query comes after a submission that succeeded;
\* (b) when the submission raised, no status query is ever issued and the
\* watcher does nothing; (c) in import_datapump the row count is issued only,
\* and only once, after monitor_job has stopped: the call before it is a
\* status query that found the job terminal or absent, the stopping
\* notification has been printed, and no status query follows it.
C19_OrderOfSteps ==
    IsDatapump =>
        /\ Cardinality(Submissions) <= 1
        /\ \A q \in StatusQueries :
             \E i \in Submissions : i < q /\ dblog[i][2]
        /\ events # << >> => \E i \in Submissions : dblog[i][2]
        /\ (\E i \in Submissions : ~dblog[i][2]) =>
             /\ StatusQueries = {}
             /\ events = << >>
             /\ pc \in {"handler", "done"}
        /\ \A c \in 1..Len(dblog) :
             dblog[c][1] = "SELECT_COUNT" =>
                 /\ script = "import_datapump"
                 /\ c = Len(dblog)
                 /\ c - 1 \in StatusQueries
                 /\ dblog[c - 1][2]
                 /\ PollAt(Len(events))
                 /\ JobOver(events[Len(events)][2])
                 /\ Notifications[Len(Notifications)][1]
                      \in {"terminal", "not_found", "no_longer_listed"}

\* import_datapump counted the rows after its watcher saw the job complete
\* at the second poll
C19_Witness ==
    /\ script = "import_datapump"
    /\ pc = "done"
    /\ exit_status = 0
    /\ Len(dblog) = 5
    /\ dblog[2] = <<"IMPORT_PLSQL", TRUE>>
    /\ dblog[5] = <<"SELECT_COUNT", TRUE>>
    /\ Len(events) = 3
    /\ RowAt(3)
    /\ StateAt(3) = "COMPLETED"

----------------------------------------------------------------------------
(* C20 *)

\* the answers of the provider to the polls made so far, in order, and those
\* of them the loop body has handled
Answers ==
    LET polls == SelectSeq(events, LAMBDA e : e[1] = "poll")
    IN  [i \in 1..Len(polls) |-> polls[i][2]]
HandledAnswers ==
    IF pc = "check" THEN SubSeq(Answers, 1, Len(Answers) - 1) ELSE Answers

\* what the watcher has done for the handled answers: its events without a
\* query that raised and without the poll still to be handled, and with the
\* sleep it is about to take
HandledEvents ==
    LET made == SelectSeq(events, LAMBDA e : e[1] # "raise")
    IN  IF pc = "check" THEN SubSeq(made, 1, Len(made) - 1)
        ELSE IF pc = "sleep" THEN Append(made, <<"sleep", 5>>)
        ELSE made

\* what the copy of monitor_job in export_datapump does, called with name,
\* for the answers a: its notifications, its last_state, its polls and sleeps
RECURSIVE ReplayExport(_, _)
ReplayExport(a, name) ==
    IF a = << >>
    THEN [notes |-> << >>, last |-> None, events |-> << >>]
    ELSE LET p == ReplayExport(SubSeq(a, 1, Len(a) - 1), name)
             r == a[Len(a)]
         IN  [notes |-> p.notes \o export_notifications(name, r, p.last),
              last |-> export_last_state(r, p.last),
              events |-> p.events \o << <<"poll", r>> >>
                           \o (IF export_breaks(r)
                               THEN << >>
                               ELSE << <<"sleep", poll_interval>> >>)]

\* the same for the copy in import_datapump
RECURSIVE ReplayImport(_, _)
ReplayImport(a, name) ==
    IF a = << >>
    THEN [notes |-> << >>, last |-> None, events |-> << >>]
    ELSE LET p == ReplayImport(SubSeq(a, 1, Len(a) - 1), name)
             r == a[Len(a)]
         IN  [notes |-> p.notes \o import_notifications(name, r, p.last),
              last |-> import_last_state(r, p.last),
              events |-> p.events \o << <<"poll", r>> >>
                           \o (IF import_breaks(r)
                               THEN << >>
                               ELSE << <<"sleep", poll_interval>> >>)]

\* C20: the two copies of monitor_job do the same: (a) for the answers the
\* provider has given in a run of either script, each copy, called with that
\* script's job name, makes the polls and sleeps and prints the notifications
\* the running script has made and printed, and ends with its last_state;
\* (b) whenever an answer is about to be handled, the loop bodies of the two
\* copies, with either job name, print the same for it, keep the same
\* last_state and take the same decision to stop.
C20_MonitorCopiesEquivalent ==
    /\ IsDatapump =>
         LET e == ReplayExport(HandledAnswers, JobName)
             i == ReplayImport(HandledAnswers, JobName)
         IN  /\ e = i
             /\ Notifications = e.notes
             /\ Notifications = i.notes
             /\ last_state = i.last
             /\ HandledEvents = e.events
             /\ HandledEvents = i.events
    /\ (IsDatapump /\ pc = "check") =>
         \A name \in {"CO_DEMO_EXPORT", "CO_DEMO_IMPORT"} :
             /\ export_notifications(name, row, last_state)
                  = import_notifications(name, row, last_state)
             /\ export_last_state(row, last_state)
                  = import_last_state(row, last_state)
             /\ export_breaks(row) <=> import_breaks(row)

\* a run of export_datapump over three answers, which the copy of
\* import_datapump is replayed against
C20_Witness ==
    /\ script = "export_datapump"
    /\ pc = "finish"
    /\ Len(Answers) = 3
    /\ ObservedStates = <<"EXECUTING", "RUNNING", "FAILED">>
    /\ Len(Notifications) = 4
    /\ ReplayImport(Answers, "CO_DEMO_EXPORT").notes = Notifications

----------------------------------------------------------------------------
(* C21 *)

\* the watcher has stopped on a row in state st
StoppedOnState(st) ==
    /\ events # << >>
    /\ RowAt(Len(events))
    /\ StateAt(Len(events)) = st
    /\ pc # "check"

\* the watcher has stopped by one of its two breaks
StoppedByBreak ==
    /\ events # << >>
    /\ PollAt(Len(events))
    /\ JobOver(events[Len(events)][2])
    /\ pc # "check"

\* what the script has printed apart from monitor_job's notifications
OwnOutput == SelectSeq(out, LAMBDA m : ~IsNotification(m))

\* C21 as stated: a run whose watcher stopped on FAILED or STOPPED ends with
\* the completion message and exit status zero.
C21_FailedJobEndsWithStatusZero ==
    ((StoppedOnState("FAILED") \/ StoppedOnState("STOPPED")) /\ pc = "done") =>
        /\ exit_status = 0
        /\ out[Len(out)] = <<"completed">>

\* C21, amended: what the caller does after the watcher stopped is the same
\* for FAILED, STOPPED, COMPLETED and an absent record: nothing is raised by
\* the stop; export_datapump prints its completion message and ends with
\* status zero; import_datapump runs its row count and then does the same,
\* unless the row count raises, which is the only way to the handler and to
\* status 1.  Apart from the notifications the finished runs print the same
\* lines whichever way the watcher stopped.
C21_OutcomeIndependentOfStop ==
    (IsDatapump /\ StoppedByBreak) =>
        /\ pc \in {"finish", "verify", "handler", "done"}
        /\ pc = "verify" => script = "import_datapump"
        /\ pc = "handler" => VerificationRaised
        /\ pc \in {"finish", "verify"} => captured = 0 /\ exit_status = 0
        /\ pc = "done" =>
             IF VerificationRaised
             THEN /\ exit_status = 1
                  /\ OwnOutput = << <<"job_submitted">>, <<"monitoring">>,
                                    <<"error">> >>
             ELSE /\ exit_status = 0
                  /\ captured = 0
                  /\ OwnOutput
                       = IF script = "export_datapump"
                         THEN << <<"job_submitted">>, <<"monitoring">>,
                                 <<"completed">> >>
                         ELSE << <<"job_submitted">>, <<"monitoring">>,
                                 <<"row_count">>, <<"completed">> >>

\* export_datapump saw the job FAILED at its second poll and ended with the
\* completion message and status zero
C21_Witness ==
    /\ script = "export_datapump"
    /\ pc = "done"
    /\ Len(events) = 3
    /\ StoppedOnState("FAILED")
    /\ exit_status = 0
    /\ out[Len(out)] = <<"completed">>

----------------------------------------------------------------------------
(* C22 *)

\* what notification m says was read by some poll of the run
ReadByAPoll(m) ==
    \E i \in 1..Len(events) :
        IF IsAbsence(m)
        THEN NoRowAt(i)
        ELSE /\ RowAt(i)
             /\ StateAt(i) = (IF IsTransition(m) THEN m[2] ELSE m[3])
             /\ IsTransition(m) => events[i][2][2] = m[3]

\* the job completed and its record went during the sleep before the last
\* poll, and the watcher has handled that poll
CompletedAndPurgedUnseen ==
    /\ skipped
    /\ events # << >>
    /\ NoRowAt(Len(events))
    /\ pc # "check"

\* C22: every notification of monitor_job reports what some poll of the run
\* read (a state and degree of a polled row, or the absence a poll found): a
\* state the job entered and left between two polls is not reported unless a
\* poll read it too; and when the job completed and its record was purged
\* between two consecutive polls, the watcher ends with "no longer listed" and
\* the run has no terminal notification.
C22_OnlyPolledStatesReported ==
    IsDatapump =>
        /\ \A k \in 1..Len(Notifications) : ReadByAPoll(Notifications[k])
        /\ (skipped /\ \A i \in 1..Len(ObservedStates) :
                          ObservedStates[i] # "COMPLETED")
             => \A k \in 1..Len(Notifications) :
                    /\ Notifications[k][1] = "terminal"
                         => Notifications[k][3] # "COMPLETED"
                    /\ IsTransition(Notifications[k])
                         => Notifications[k][2] # "COMPLETED"
        /\ CompletedAndPurgedUnseen =>
             /\ Notifications[Len(Notifications)] = <<"no_longer_listed", JobName>>
             /\ \A k \in 1..Len(Notifications) :
                    Notifications[k][1] # "terminal"

\* EXECUTING was polled, the job completed and was purged during the sleep,
\* and the script has ended having reported EXECUTING and the disappearance
C22_Witness ==
    /\ script = "export_datapump"
    /\ pc = "done"
    /\ skipped
    /\ Len(events) = 3
    /\ RowAt(1)
    /\ NoRowAt(3)
    /\ Notifications = << <<"transition", "EXECUTING", events[1][2][2]>>,
                          <<"no_longer_listed", "CO_DEMO_EXPORT">> >>

----------------------------------------------------------------------------
(* C23 *)

IsStopping(m) == IsAbsence(m) \/ m[1] = "terminal"

\* the absence and terminal notifications printed so far
StoppingNotifications == SelectSeq(out, IsStopping)

\* C23: while monitor_job polls, and in a run it left by an exception, no
\* stopping notification has been printed; once monitor_job has stopped by one
\* of its breaks there is exactly one, it is the last notification, it is an
\* absence notification when the last poll found no row and the terminal
\* notification otherwise, and an absence notification reads "not found" when
\* no poll of the run observed a state and "no longer listed" when one did.
C23_OneStoppingNotificationLast ==
    IsDatapump =>
        IF StoppedByBreak
        THEN /\ Len(StoppingNotifications) = 1
             /\ Notifications[Len(Notifications)] = StoppingNotifications[1]
             /\ IsAbsence(StoppingNotifications[1]) <=> NoRowAt(Len(events))
             /\ StoppingNotifications[1][1] = "not_found"
                  <=> ObservedStates = << >>
             /\ StoppingNotifications[1][1] = "no_longer_listed"
                  <=> (NoRowAt(Len(events)) /\ ObservedStates # << >>)
        ELSE StoppingNotifications = << >>

\* import_datapump observed two states and then found the record gone: the
\* run has two transition notifications and ends with "no longer listed"
C23_Witness ==
    /\ script = "import_datapump"
    /\ pc = "done"
    /\ Len(events) = 5
    /\ NoRowAt(5)
    /\ Len(Transitions) = 2
    /\ StoppingNotifications = << <<"no_longer_listed", "CO_DEMO_IMPORT">> >>

----------------------------------------------------------------------------
(* C24 *)

\* the statement that fills CUSTOMER_ORDERS_DEMO after the TRUNCATE
LoadOp == IF script = "import_final" THEN "COPY_DATA" ELSE "INSERT_SELECT"

\* in this run the TRUNCATE ran and the load that follows it raised
LoadFailedAfterTruncate ==
    \E i \in 1..(Len(dblog) - 1) :
        /\ dblog[i] = <<"TRUNCATE", TRUE>>
        /\ dblog[i + 1] = <<LoadOp, FALSE>>

\* C24: in import_final and import_noclobs, once the TRUNCATE has run and the
\* load after it has raised, CUSTOMER_ORDERS_DEMO is empty and stays empty to
\* the end of the run, whatever it held before (the rows of an earlier
\* completed load included), no commit or row count follows, and the script
\* ends with exit status 1.
C24_FailedLoadLeavesTableEmpty ==
    (script \in {"import_final", "import_noclobs"} /\ LoadFailedAfterTruncate) =>
        /\ demo = EmptyTable
        /\ pc \in {"handler", "cleanup_connect", "cleanup_drop", "exit", "done"}
        /\ \A i \in 1..Len(dblog) : dblog[i][1] \notin {"commit", "SELECT_COUNT"}
        /\ pc = "done" => exit_status = 1

\* a first run of import_noclobs loaded rows; in the second the INSERT raised
\* after the TRUNCATE and the script has ended leaving the table empty
C24_Witness ==
    /\ script = "import_noclobs"
    /\ runs = 1
    /\ pc = "done"
    /\ exit_status = 1
    /\ LoadFailedAfterTruncate
    /\ Len(loads) = 1
    /\ loads[1] # EmptyTable
    /\ demo = EmptyTable

----------------------------------------------------------------------------
(* C25 *)

\* a run of import_noclobs has ended
NoclobsEnded == script = "import_noclobs" /\ pc = "done"

IsDropStage(c) == c[1] = "DROP_STAGE"

\* the DROP statements of the staging table issued in this run
DropAttempts == SelectSeq(dblog, IsDropStage)

\* the first call of this run that raised (0 when none did)
FirstFailure ==
    IF \A i \in 1..Len(dblog) : dblog[i][2]
    THEN 0
    ELSE CHOOSE i \in 1..Len(dblog) :
             ~dblog[i][2] /\ \A j \in 1..(i - 1) : dblog[j][2]

\* C25 as stated: every run of import_noclobs that has ended has issued a DROP
\* of the staging table.
C25_DropAttemptedOnEveryPath ==
    NoclobsEnded => DropAttempts # << >>

\* C25, amended: a run that ends with status zero dropped the staging table
\* before its commit; a run in which a call raised ends with status 1 after
\* trying to open a fresh connection, and issues one DROP from it as its last
\* call exactly when that connection opens (when it does not, the handler
\* issues none and a staging table that exists stays); and in a run that has
\* ended after a DROP that succeeded, the staging table does not exist.
C25_DropAttemptedWhenConnected ==
    NoclobsEnded =>
        /\ exit_status = 0 <=> FirstFailure = 0
        /\ FirstFailure = 0 =>
              /\ stage = NoTable
              /\ \E i, j \in 1..Len(dblog) :
                    /\ i < j
                    /\ dblog[i] = <<"DROP_STAGE", TRUE>>
                    /\ dblog[j] = <<"commit", TRUE>>
        /\ FirstFailure > 0 =>
              /\ exit_status = 1
              /\ Len(dblog) > FirstFailure
              /\ dblog[FirstFailure + 1][1] = "connect"
              /\ IF dblog[FirstFailure + 1][2]
                 THEN /\ Len(dblog) = FirstFailure + 2
                      /\ dblog[Len(dblog)][1] = "DROP_STAGE"
                      /\ dblog[Len(dblog)][2] => stage = NoTable
                 ELSE Len(dblog) = FirstFailure + 1
        /\ (\E i \in 1..Len(dblog) : dblog[i] = <<"DROP_STAGE", TRUE>>)
              => stage = NoTable

\* the load into the staging table raised, the fresh connection could not be
\* opened, and the script has ended without any DROP, the staging table left
C25_Witness ==
    /\ NoclobsEnded
    /\ exit_status = 1
    /\ Len(dblog) = 4
    /\ dblog[3] = <<"COPY_DATA_STAGE", FALSE>>
    /\ dblog[4] = <<"connect", FALSE>>
    /\ DropAttempts = << >>
    /\ stage # NoTable

----------------------------------------------------------------------------
(* C26 *)

\* the closing summary with the row count has been printed
SummaryPrinted == \E k \in 1..Len(out) : out[k] = <<"complete">>

\* C26: in generate_customer_orders_demo, (a) the closing summary is reached
\* and printed only after every call succeeded, the insert loop having been
\* left with inserted = TOTAL_ROWS and the final count fetched, so row_count
\* is bound when the summary reads it and the heading is never printed
\* without the count; (b) a failed table check ends the run at once with its
\* own message; (c) any other call that raises is the last call of the run,
\* which goes through the handler to its end without the summary; (d) after a
\* failure inserted is still the sum of the batches whose commit succeeded,
\* and no call follows that could undo them.
C26_SummaryOnlyAfterCount ==
    IsGenerate =>
        /\ (pc = "summary" \/ SummaryPrinted) =>
              /\ row_count_bound
              /\ NoCallFailed
              /\ captured = 0
              /\ LoopFinished
              /\ inserted = TOTAL_ROWS
        /\ \A k \in 1..Len(out) : out[k] # <<"complete_heading">>
        /\ (pc = "done" /\ NoCallFailed) => SummaryPrinted
        /\ ~NoCallFailed =>
              /\ ~dblog[Len(dblog)][2]
              /\ \A i \in 1..(Len(dblog) - 1) : dblog[i][2]
              /\ pc \in {"handler", "done"}
              /\ dblog[Len(dblog)][1] = "SELECT_TABLE_CHECK" =>
                    /\ pc = "done"
                    /\ out[Len(out)] = <<"table_check_error">>
              /\ pc = "done" =>
                    /\ captured = 1
                    /\ out[Len(out)] \in {<<"error">>, <<"table_check_error">>}
              /\ inserted = SumFirst(batches, Committed)
              /\ Committed = Cardinality({i \in 1..Len(dblog) :
                                            dblog[i][1] = "commit"}) -
                             (IF dblog[Len(dblog)][1] = "commit" THEN 1 ELSE 0)

\* the third batch raised after two batches of three rows were committed: the
\* run has ended without the summary and the six rows are still counted
C26_Witness ==
    /\ IsGenerate
    /\ pc = "done"
    /\ TOTAL_ROWS = 7
    /\ BATCH_SIZE = 3
    /\ dblog[Len(dblog)] = <<"INSERT_BATCH", FALSE>>
    /\ Committed = 2
    /\ inserted = 6
    /\ ~SummaryPrinted
    /\ out[Len(out)] = <<"error">>

====
